---- MODULE Spec2Model ----
(***************************************************************************)
(* jolt-go: Go bindings over a C wrapper around the Jolt physics engine.   *)
(* The model covers the handle lifetimes of the wrapper (Shape, BodyID,    *)
(* TransformedShape, CharacterVirtual), the body interface, the layer      *)
(* filters, the simulation step and the shape / ray queries.               *)
(*                                                                         *)
(* The world is one vertical axis: a position is an integer height, two    *)
(* shapes touch when their heights differ by at most one, gravity moves an *)
(* unsupported active dynamic body down by one per step.                   *)
(***************************************************************************)
EXTENDS Integers, Sequences, FiniteSets, TLC

\* ------------------------------------------------------------------ bounds
MaxShapes == 2
cMaxBodies == 2
MaxY == 2
MaxTS == 1
MaxChars == 1
MaxCopies == 1
MaxHitsArg == 2
MaxV == 1
MaxJobs == 2
MaxWorkers == 1
MaxGot == 1
\* bytes of a release asset
LibSize == 2

ShapeIds == 1..MaxShapes
BodyIds == 1..cMaxBodies
TSIds == 1..MaxTS
JobIds == 1..MaxJobs
CharIds == 1..MaxChars
Positions == 0..MaxY
NULL == 0

\* --------------------------------------------------------------- constants
JoltMotionTypeStatic == 0
JoltMotionTypeKinematic == 1
JoltMotionTypeDynamic == 2
MotionTypes == {JoltMotionTypeStatic, JoltMotionTypeKinematic, JoltMotionTypeDynamic}

NON_MOVING == 0
MOVING == 1
Layers == {NON_MOVING, MOVING}

BP_NON_MOVING == 0
BP_MOVING == 1
BroadPhaseLayers == {BP_NON_MOVING, BP_MOVING}

\* JoltGroundState (matches the engine's EGroundState and Go's GroundState)
JoltGroundStateOnGround == 0
JoltGroundStateOnSteepGround == 1
JoltGroundStateNotSupported == 2
JoltGroundStateInAir == 3
GroundStates == {JoltGroundStateOnGround, JoltGroundStateOnSteepGround, JoltGroundStateNotSupported,
                 JoltGroundStateInAir}

\* BackfaceMode of RayCastSettings
BackfaceModeIgnore == 0
BackfaceModeCollideWithAll == 1
BackfaceModes == {BackfaceModeIgnore, BackfaceModeCollideWithAll}

\* radius of the sphere the ray tests are made against
HalfExtent == 1

\* what lies under the horizontal coordinates of a character's position
Sites == {"flat", "steep"}
Velocities == (-MaxV)..MaxV

ShapeKinds == {"Sphere", "Box", "Capsule", "ConvexHull", "Mesh"}

VARIABLES shapes, bodies, copies, ts, tsPos, chars, cv, jobs, wrapper, globals, files, ret

vars == <<shapes, bodies, copies, ts, tsPos, chars, cv, jobs, wrapper, globals, files, ret>>

\* got: the Shape objects GetShape has handed out and the caller still holds
NoShape == [h |-> "none", rc |-> 0, alive |-> FALSE, got |-> 0]
NoBody == [req |-> -1, motion |-> -1, layer |-> -1, pos |-> 0, active |-> FALSE,
           shape |-> NULL, h |-> "none"]

\* a job of the job system: not made, waiting, being executed, executed
NoJob == [st |-> "none", by |-> "none"]

\* PhysicsSystemWrapper: the members, each there or destroyed
WrapperMembers == <<"system", "broad_phase_layer_interface",
                    "object_vs_broadphase_layer_filter", "object_vs_object_layer_filter">>
NewWrapper == [m \in {WrapperMembers[i] : i \in DOMAIN WrapperMembers} |-> "alive"]

\* gTempAllocator and gJobSystem: allocated or null
NoGlobals == [gTempAllocator |-> FALSE, gJobSystem |-> FALSE]
NewGlobals == [gTempAllocator |-> TRUE, gJobSystem |-> TRUE]

NoChar == [pos |-> 0, vel |-> 0, ground |-> JoltGroundStateInAir, contacts |-> <<>>,
           site |-> "flat"]

InWorld(b) == bodies[b].h # "none"
WorldBodies == {b \in BodyIds : InWorld(b)}

Abs(x) == IF x < 0 THEN -x ELSE x
Sign(v) == IF v < 0 THEN -1 ELSE IF v > 0 THEN 1 ELSE 0
Min(a, b) == IF a < b THEN a ELSE b

\* The caller makes one call at a time: ret holds the outcome of the call it
\* made last until it has looked at it. After a crash the process is gone.
NoRet == [op |-> "idle", out |-> "ok", val |-> 0, hk |-> "none"]
Running == ret = NoRet

\* ------------------------------------------------------ library download
\* requiredLibs, in the order of the slice
RequiredLibs == <<"libJolt.a", "libjolt_wrapper.a">>
LibNames == {RequiredLibs[i] : i \in DOMAIN RequiredLibs}
\* files[lib]: the bytes at lib/<platform>/<lib>, NoFile when os.Stat fails
NoFile == -1

Init ==
    /\ shapes = [s \in ShapeIds |-> NoShape]
    /\ bodies = [b \in BodyIds |-> NoBody]
    /\ copies = [b \in BodyIds |-> 0]
    /\ ts = [t \in TSIds |-> NULL]
    /\ tsPos = [t \in TSIds |-> 0]
    /\ chars = [c \in CharIds |-> NULL]
    /\ cv = [c \in CharIds |-> NoChar]
    /\ jobs = [j \in JobIds |-> NoJob]
    /\ wrapper = NewWrapper
    /\ globals = NewGlobals
    /\ files = [lib \in LibNames |-> NoFile]
    /\ ret = NoRet

\* ------------------------------------------------------------------ shapes
\* Reference count of a RefTarget: the object deletes itself when the count
\* reaches zero.
AddRef(sh, s) == [sh EXCEPT ![s].rc = @ + 1]
Release(sh, s) == [sh EXCEPT ![s].rc = @ - 1, ![s].alive = (sh[s].rc - 1 > 0)]

\* a stale use of a shape whose memory is gone leaves the handle marked
MarkMisused(sh, s) == [sh EXCEPT ![s].h = "misused"]

\* the Shape object the caller passes: live, or stale once destroyed
ShapeHk(s) == IF shapes[s].h = "live" THEN "live" ELSE "stale"

FreeShapeIds == {s \in ShapeIds : shapes[s].h = "none"}
HeldShapes == {s \in ShapeIds : shapes[s].h # "none"}

\* Settings::Create() reports an error for these parameters
ShapeParams == {"valid", "invalid", "empty"}
ParamsOf(kind) == IF kind \in {"ConvexHull", "Mesh"} THEN ShapeParams ELSE {"valid", "invalid"}

\* JoltCreateSphere / Box / Capsule / ConvexHull / Mesh: the result holds one
\* reference, the local ShapeRefC a second, AddRef a third; result and local
\* go out of scope on return.
RefsAfterCreateNoAddRef == 1 + 1 - 1 - 1
RefsAfterCreate == 1 + 1 + 1 - 1 - 1

\* What reading the value of an errored ShapeResult can produce: the result
\* holds the error string, not a shape pointer.
InvalidResultOutcomes == {"crash", "garbage"}

CreateShape(kind, param) ==
    /\ Running
    /\ FreeShapeIds # {}
    /\ LET s == CHOOSE x \in FreeShapeIds : \A y \in FreeShapeIds : x <= y IN
       CASE param = "valid" ->
              /\ shapes' = [shapes EXCEPT ![s] = [h |-> "live", rc |-> RefsAfterCreate,
                                                  alive |-> RefsAfterCreate > 0,
                                                  got |-> 0]]
              /\ ret' = [op |-> "CreateShape", out |-> "handle", val |-> s, hk |-> "none"]
         [] param = "empty" ->
              \* Go: &floatPoints[0] on an empty slice panics before the C call
              /\ shapes' = shapes
              /\ ret' = [op |-> "CreateShape", out |-> "crash", val |-> NULL, hk |-> "none"]
         [] OTHER ->
              /\ shapes' = shapes
              /\ \E o \in InvalidResultOutcomes :
                    ret' = [op |-> "CreateShape", out |-> o, val |-> NULL, hk |-> "none"]
    /\ UNCHANGED <<bodies, copies, ts, tsPos, chars, cv, jobs, wrapper, globals, files>>

\* Shape.Destroy -> JoltDestroyShape: s->Release(), whatever the handle's state
DestroyShape(s) ==
    /\ Running
    /\ shapes[s].h # "none"
    /\ IF shapes[s].alive
       THEN /\ shapes' = [Release(shapes, s) EXCEPT
                            ![s].h = IF shapes[s].h = "live" THEN "destroyed" ELSE "misused"]
            /\ ret' = [op |-> "DestroyShape", out |-> "ok", val |-> s, hk |-> ShapeHk(s)]
       ELSE \* Release() on freed memory
            /\ shapes' = MarkMisused(shapes, s)
            /\ \E o \in {"crash", "garbage"} :
                  ret' = [op |-> "DestroyShape", out |-> o, val |-> s, hk |-> ShapeHk(s)]
    /\ UNCHANGED <<bodies, copies, ts, tsPos, chars, cv, jobs, wrapper, globals, files>>

\* ------------------------------------------------------------------ bodies
\* JoltCreateBody: the switch from the caller's motion type to the engine's
\* motion type and object layer
BodySettingsAllDynamic(mt) == [motion |-> JoltMotionTypeDynamic, layer |-> MOVING]
BodySettings(mt) ==
    CASE mt = JoltMotionTypeStatic -> [motion |-> JoltMotionTypeStatic, layer |-> NON_MOVING]
      [] mt = JoltMotionTypeKinematic -> [motion |-> JoltMotionTypeKinematic, layer |-> MOVING]
      [] mt = JoltMotionTypeDynamic -> [motion |-> JoltMotionTypeDynamic, layer |-> MOVING]
      [] OTHER -> [motion |-> JoltMotionTypeStatic, layer |-> NON_MOVING]

\* bi->AddBody(id, EActivation::DontActivate)
AddBodyActivationActivate == "Activate"
AddBodyActivation == "DontActivate"

\* BodyManager::ActivateBodies ignores static bodies
ActivatedBy(b, wanted) == wanted /\ bodies[b].motion # JoltMotionTypeStatic

FreeBodyIds == {b \in BodyIds : ~InWorld(b)}

\* BodyInterface.CreateBody -> JoltCreateBody
CreateBody(s, p, mt) ==
    /\ Running
    /\ shapes[s].h # "none"
    /\ UNCHANGED <<copies, ts, tsPos, chars, cv, jobs, wrapper, globals, files>>
    /\ IF FreeBodyIds = {}
       THEN \* bi->CreateBody returns nullptr: the wrapper returns nullptr and
            \* Go wraps it in a BodyID object like any other handle
            /\ UNCHANGED <<shapes, bodies, jobs, wrapper, globals, files>>
            /\ ret' = [op |-> "CreateBody", out |-> "BodyID", val |-> NULL, hk |-> ShapeHk(s)]
       ELSE LET b == CHOOSE x \in FreeBodyIds : \A y \in FreeBodyIds : x <= y
                nb == [req |-> mt, motion |-> BodySettings(mt).motion,
                       layer |-> BodySettings(mt).layer, pos |-> p,
                       active |-> AddBodyActivation = "Activate"
                                  /\ BodySettings(mt).motion # JoltMotionTypeStatic,
                       shape |-> s, h |-> "live"]
            IN IF shapes[s].alive
               THEN /\ bodies' = [bodies EXCEPT ![b] = nb]
                    /\ shapes' = AddRef(shapes, s)
                    /\ ret' = [op |-> "CreateBody", out |-> "BodyID", val |-> b, hk |-> ShapeHk(s)]
               ELSE \* the Shape handle points at freed memory
                    \E o \in {"crash", "garbage"} :
                       /\ ret' = [op |-> "CreateBody", out |-> IF o = "crash" THEN "crash" ELSE "BodyID",
                                  val |-> IF o = "crash" THEN NULL ELSE b, hk |-> ShapeHk(s)]
                       /\ shapes' = MarkMisused(shapes, s)
                       /\ bodies' = IF o = "crash" THEN bodies ELSE [bodies EXCEPT ![b] = nb]

\* The BodyID objects a caller can pass for body b: the one CreateBody
\* returned (live, or stale once destroyed) and the copies queries returned.
Handles(b) ==
    (IF bodies[b].h = "live" THEN {"live"} ELSE {})
    \cup (IF bodies[b].h = "freed" THEN {"stale"} ELSE {})
    \cup (IF copies[b] > 0 THEN {"copy"} ELSE {})

\* Reading a deleted BodyID object: the old id is still there, or the memory
\* was reused and holds no valid id, or the access faults.
StaleOutcomes == {"ok", "garbage", "crash"}
OutcomesOf(hk) == IF hk = "stale" THEN StaleOutcomes ELSE {"ok"}

\* a Destroy that takes the body out of the world (RemoveBody + DestroyBody)
DestroyBodyIDRemoves(b, hk) ==
    /\ Running
    /\ InWorld(b)
    /\ hk \in Handles(b)
    /\ UNCHANGED <<ts, tsPos, chars, cv, jobs, wrapper, globals, files>>
    /\ bodies' = [bodies EXCEPT ![b] = NoBody]
    /\ copies' = [copies EXCEPT ![b] = 0]
    /\ shapes' = IF shapes[bodies[b].shape].alive THEN Release(shapes, bodies[b].shape)
                 ELSE shapes
    /\ ret' = [op |-> "DestroyBodyID", out |-> "ok", val |-> b, hk |-> hk]

\* BodyID.Destroy -> JoltDestroyBodyID: delete bid
DestroyBodyID(b, hk) ==
    /\ Running
    /\ InWorld(b)
    /\ hk \in Handles(b)
    /\ UNCHANGED <<shapes, ts, tsPos, chars, cv, jobs, wrapper, globals, files>>
    /\ CASE hk = "live" ->
              /\ bodies' = [bodies EXCEPT ![b].h = "freed"]
              /\ copies' = copies
              /\ ret' = [op |-> "DestroyBodyID", out |-> "ok", val |-> b, hk |-> hk]
         [] hk = "copy" ->
              /\ bodies' = bodies
              /\ copies' = [copies EXCEPT ![b] = @ - 1]
              /\ ret' = [op |-> "DestroyBodyID", out |-> "ok", val |-> b, hk |-> hk]
         [] OTHER -> \* double delete
              /\ UNCHANGED <<bodies, copies, jobs, wrapper, globals, files>>
              /\ \E o \in {"garbage", "crash"} :
                    ret' = [op |-> "DestroyBodyID", out |-> o, val |-> b, hk |-> hk]

\* BodyInterface.GetPosition -> JoltGetBodyPosition
GetPosition(b, hk) ==
    /\ Running
    /\ InWorld(b)
    /\ hk \in Handles(b)
    /\ UNCHANGED <<shapes, bodies, copies, ts, tsPos, chars, cv, jobs, wrapper, globals, files>>
    /\ \E o \in OutcomesOf(hk) :
          ret' = [op |-> "GetPosition", out |-> o,
                  val |-> IF o = "ok" THEN bodies[b].pos ELSE 0, hk |-> hk]

\* BodyInterface.SetPosition -> JoltSetBodyPosition (EActivation::DontActivate)
SetPositionActivates(b, hk, p) ==
    /\ Running
    /\ InWorld(b)
    /\ hk \in Handles(b)
    /\ UNCHANGED <<shapes, copies, ts, tsPos, chars, cv, jobs, wrapper, globals, files>>
    /\ \E o \in OutcomesOf(hk) :
          /\ bodies' = IF o = "ok"
                       THEN [bodies EXCEPT ![b].pos = p, ![b].active = @ \/ ActivatedBy(b, TRUE)]
                       ELSE bodies
          /\ ret' = [op |-> "SetPosition", out |-> o, val |-> b, hk |-> hk]

SetPosition(b, hk, p) ==
    /\ Running
    /\ InWorld(b)
    /\ hk \in Handles(b)
    /\ UNCHANGED <<shapes, copies, ts, tsPos, chars, cv, jobs, wrapper, globals, files>>
    /\ \E o \in OutcomesOf(hk) :
          /\ bodies' = IF o = "ok" THEN [bodies EXCEPT ![b].pos = p] ELSE bodies
          /\ ret' = [op |-> "SetPosition", out |-> o, val |-> b, hk |-> hk]

\* BodyInterface.ActivateBody -> JoltActivateBody
ActivateBody(b, hk) ==
    /\ Running
    /\ InWorld(b)
    /\ hk \in Handles(b)
    /\ UNCHANGED <<shapes, copies, ts, tsPos, chars, cv, jobs, wrapper, globals, files>>
    /\ \E o \in OutcomesOf(hk) :
          /\ bodies' = IF o = "ok"
                       THEN [bodies EXCEPT ![b].active = @ \/ ActivatedBy(b, TRUE)]
                       ELSE bodies
          /\ ret' = [op |-> "ActivateBody", out |-> o, val |-> b, hk |-> hk]

\* BodyInterface.DeactivateBody -> JoltDeactivateBody
DeactivateBody(b, hk) ==
    /\ Running
    /\ InWorld(b)
    /\ hk \in Handles(b)
    /\ UNCHANGED <<shapes, copies, ts, tsPos, chars, cv, jobs, wrapper, globals, files>>
    /\ \E o \in OutcomesOf(hk) :
          /\ bodies' = IF o = "ok" THEN [bodies EXCEPT ![b].active = FALSE] ELSE bodies
          /\ ret' = [op |-> "DeactivateBody", out |-> o, val |-> b, hk |-> hk]

\* BodyInterface.SetShape -> JoltSetBodyShape (EActivation::Activate): the body
\* takes a reference to the new shape and drops the one to the old shape
SetShape(b, hk, s) ==
    /\ Running
    /\ InWorld(b)
    /\ hk \in Handles(b)
    /\ shapes[s].h # "none"
    /\ UNCHANGED <<copies, ts, tsPos, chars, cv, jobs, wrapper, globals, files>>
    /\ \E o \in OutcomesOf(hk) :
          IF o # "ok"
          THEN /\ UNCHANGED <<shapes, bodies, jobs, wrapper, globals, files>>
               /\ ret' = [op |-> "SetShape", out |-> o, val |-> b, hk |-> IF hk = "stale" THEN "stale" ELSE ShapeHk(s)]
          ELSE LET old == bodies[b].shape
                   nb == [bodies EXCEPT ![b].shape = s,
                                        ![b].active = @ \/ ActivatedBy(b, TRUE)]
               IN IF shapes[s].alive
                  THEN /\ bodies' = nb
                       /\ shapes' = IF old = s THEN shapes
                                    ELSE IF shapes[old].alive THEN Release(AddRef(shapes, s), old)
                                    ELSE AddRef(shapes, s)
                       /\ ret' = [op |-> "SetShape", out |-> "ok", val |-> b, hk |-> IF hk = "stale" THEN "stale" ELSE ShapeHk(s)]
                  ELSE \* the Shape handle points at freed memory
                       \E u \in {"crash", "garbage"} :
                          /\ ret' = [op |-> "SetShape", out |-> u, val |-> b, hk |-> IF hk = "stale" THEN "stale" ELSE ShapeHk(s)]
                          /\ bodies' = IF u = "crash" THEN bodies ELSE nb
                          /\ shapes' = IF u = "crash" \/ old = s THEN MarkMisused(shapes, s)
                                       ELSE IF shapes[old].alive
                                            THEN Release(MarkMisused(shapes, s), old)
                                            ELSE MarkMisused(shapes, s)

\* ------------------------------------------- transformed shapes, characters
FreeTSIds == {t \in TSIds : ts[t] = NULL}
FreeCharIds == {c \in CharIds : chars[c] = NULL}

\* CreateTransformedShape -> JoltCreateTransformedShape: the TransformedShape
\* holds a RefConst<Shape> and the position it was given (identity rotation)
CreateTransformedShape(s, p) ==
    /\ Running
    /\ shapes[s].h # "none"
    /\ FreeTSIds # {}
    /\ UNCHANGED <<bodies, copies, chars, cv, jobs, wrapper, globals, files>>
    /\ LET t == CHOOSE x \in FreeTSIds : \A y \in FreeTSIds : x <= y IN
       IF shapes[s].alive
       THEN /\ ts' = [ts EXCEPT ![t] = s]
            /\ tsPos' = [tsPos EXCEPT ![t] = p]
            /\ shapes' = AddRef(shapes, s)
            /\ ret' = [op |-> "CreateTransformedShape", out |-> "handle", val |-> t, hk |-> ShapeHk(s)]
       ELSE \E o \in {"crash", "garbage"} :
               /\ ret' = [op |-> "CreateTransformedShape", out |-> o, val |-> t, hk |-> ShapeHk(s)]
               /\ shapes' = MarkMisused(shapes, s)
               /\ ts' = IF o = "crash" THEN ts ELSE [ts EXCEPT ![t] = s]
               /\ tsPos' = IF o = "crash" THEN tsPos ELSE [tsPos EXCEPT ![t] = p]

\* TransformedShape.Destroy -> JoltDestroyTransformedShape: delete ts
DestroyTransformedShape(t) ==
    /\ Running
    /\ ts[t] # NULL
    /\ UNCHANGED <<bodies, copies, chars, cv, jobs, wrapper, globals, files>>
    /\ ts' = [ts EXCEPT ![t] = NULL]
    /\ tsPos' = [tsPos EXCEPT ![t] = 0]
    /\ shapes' = IF shapes[ts[t]].alive THEN Release(shapes, ts[t]) ELSE shapes
    /\ ret' = [op |-> "DestroyTransformedShape", out |-> "ok", val |-> t, hk |-> "none"]

\* CreateCharacterVirtual -> JoltCreateCharacterVirtual: the character holds
\* the shape for its lifetime; it starts at the given position, at rest, in
\* the air, with no contacts
NewCharacter(p, site) == [pos |-> p, vel |-> 0, ground |-> JoltGroundStateInAir,
                          contacts |-> <<>>, site |-> site]

CreateCharacterVirtual(s, p, site) ==
    /\ Running
    /\ shapes[s].h # "none"
    /\ FreeCharIds # {}
    /\ UNCHANGED <<bodies, copies, ts, tsPos, jobs, wrapper, globals, files>>
    /\ LET c == CHOOSE x \in FreeCharIds : \A y \in FreeCharIds : x <= y IN
       IF shapes[s].alive
       THEN /\ chars' = [chars EXCEPT ![c] = s]
            /\ cv' = [cv EXCEPT ![c] = NewCharacter(p, site)]
            /\ shapes' = AddRef(shapes, s)
            /\ ret' = [op |-> "CreateCharacterVirtual", out |-> "handle", val |-> c, hk |-> ShapeHk(s)]
       ELSE \E o \in {"crash", "garbage"} :
               /\ ret' = [op |-> "CreateCharacterVirtual", out |-> o, val |-> c, hk |-> ShapeHk(s)]
               /\ shapes' = MarkMisused(shapes, s)
               /\ chars' = IF o = "crash" THEN chars ELSE [chars EXCEPT ![c] = s]
               /\ cv' = IF o = "crash" THEN cv ELSE [cv EXCEPT ![c] = NewCharacter(p, site)]

\* CharacterVirtual.Destroy -> JoltDestroyCharacterVirtual: delete cv
DestroyCharacterVirtual(c) ==
    /\ Running
    /\ chars[c] # NULL
    /\ UNCHANGED <<bodies, copies, ts, tsPos, jobs, wrapper, globals, files>>
    /\ chars' = [chars EXCEPT ![c] = NULL]
    /\ cv' = [cv EXCEPT ![c] = NoChar]
    /\ shapes' = IF shapes[chars[c]].alive THEN Release(shapes, chars[c]) ELSE shapes
    /\ ret' = [op |-> "DestroyCharacterVirtual", out |-> "ok", val |-> c, hk |-> "none"]

\* CharacterVirtual.GetShape -> JoltCharacterVirtualGetShape: cv->GetShape()
\* is returned as it is and wrapped in a new Shape object; the count of the
\* shape is not touched
GetShapeRefs == 0

CharGetShape(c) ==
    /\ Running
    /\ chars[c] # NULL
    /\ shapes[chars[c]].got < MaxGot
    /\ shapes' = [shapes EXCEPT ![chars[c]].got = @ + 1, ![chars[c]].rc = @ + GetShapeRefs]
    /\ ret' = [op |-> "CharGetShape", out |-> "handle", val |-> chars[c], hk |-> "none"]
    /\ UNCHANGED <<bodies, copies, ts, tsPos, chars, cv, jobs, wrapper, globals, files>>

\* Shape.Destroy on a Shape object that came from GetShape: JoltDestroyShape
\* as for any other handle
DestroyGotShape(s) ==
    /\ Running
    /\ shapes[s].got > 0
    /\ IF shapes[s].alive
       THEN /\ shapes' = [Release(shapes, s) EXCEPT ![s].got = @ - 1]
            /\ ret' = [op |-> "DestroyGotShape", out |-> "ok", val |-> s, hk |-> "live"]
       ELSE /\ shapes' = [shapes EXCEPT ![s].got = @ - 1]
            /\ \E o \in {"crash", "garbage"} :
                  ret' = [op |-> "DestroyGotShape", out |-> o, val |-> s, hk |-> "stale"]
    /\ UNCHANGED <<bodies, copies, ts, tsPos, chars, cv, jobs, wrapper, globals, files>>

\* ----------------------------------------------------------- layer filters
\* BPLayerInterfaceImpl::GetBroadPhaseLayer
GetBroadPhaseLayerSwapped(inLayer) ==
    CASE inLayer = NON_MOVING -> BP_MOVING
      [] inLayer = MOVING -> BP_NON_MOVING
GetBroadPhaseLayer(inLayer) ==
    CASE inLayer = NON_MOVING -> BP_NON_MOVING
      [] inLayer = MOVING -> BP_MOVING

\* ObjectVsBroadPhaseLayerFilterImpl::ShouldCollide
ObjectVsBroadPhaseAlways(inLayer1, inLayer2) == TRUE
ObjectVsBroadPhaseShouldCollide(inLayer1, inLayer2) ==
    CASE inLayer1 = NON_MOVING -> inLayer2 = BP_MOVING
      [] inLayer1 = MOVING -> TRUE
      [] OTHER -> FALSE

\* ObjectLayerPairFilterImpl::ShouldCollide
ObjectLayerPairAlways(inObject1, inObject2) == TRUE
ObjectLayerPairShouldCollide(inObject1, inObject2) ==
    CASE inObject1 = NON_MOVING -> inObject2 = MOVING
      [] inObject1 = MOVING -> TRUE
      [] OTHER -> FALSE

\* the two-stage filter every pairwise test consults before the geometry
FiltersAccept(layer1, layer2) ==
    /\ ObjectVsBroadPhaseShouldCollide(layer1, GetBroadPhaseLayer(layer2))
    /\ ObjectLayerPairShouldCollide(layer1, layer2)

Touching(p, q) == Abs(p - q) <= 1

\* -------------------------------------------------------------------- step
\* pairs found from the active bodies: filtered by layer, then tested exactly
PairFound(b1, b2) ==
    /\ b1 # b2
    /\ bodies[b1].active
    /\ FiltersAccept(bodies[b1].layer, bodies[b2].layer)
    /\ Touching(bodies[b1].pos, bodies[b2].pos)
ContactPairs ==
    {pr \in {{b1, b2} : b1 \in WorldBodies, b2 \in WorldBodies} :
        \E b1 \in pr : \E b2 \in pr : PairFound(b1, b2)}

InContact(b) == \E c \in WorldBodies : PairFound(b, c) \/ PairFound(c, b)

\* a body rests on a touching body below it that itself stays where it is
\* (n bounds the length of the chain)
RECURSIVE SupportedN(_, _)
SupportedN(b, n) ==
    /\ n > 0
    /\ \E c \in WorldBodies :
          /\ (PairFound(b, c) \/ PairFound(c, b))
          /\ bodies[c].pos = bodies[b].pos - 1
          /\ \/ bodies[c].motion # JoltMotionTypeDynamic
             \/ SupportedN(c, n - 1)
Supported(b) == SupportedN(b, cMaxBodies)

\* bodies taking part in the step once contacts have woken the sleeping ones
Awake(b) == bodies[b].active \/ (InContact(b) /\ bodies[b].motion # JoltMotionTypeStatic)

Falls(b) == Awake(b) /\ bodies[b].motion = JoltMotionTypeDynamic /\ ~Supported(b)

\* PhysicsSystem::Update(deltaTime, 1, ...): what one collision step does to
\* the world and what the call hands back
CollisionStep ==
    /\ \A b \in WorldBodies : Falls(b) => bodies[b].pos > 0
    /\ UNCHANGED <<shapes, copies, ts, tsPos, chars, cv, wrapper, globals, files>>
    /\ IF \E b \in WorldBodies : ~shapes[bodies[b].shape].alive
       THEN \* a body's shape was freed under it
            /\ bodies' = bodies
            /\ \E o \in {"crash", "garbage"} :
                  ret' = [op |-> "Update", out |-> o, val |-> 0, hk |-> "none"]
       ELSE LET moved == {b \in WorldBodies : Falls(b)}
                resting == {b \in WorldBodies : Awake(b) /\ ~Falls(b)}
            IN \E asleep \in SUBSET resting :
                  /\ bodies' = [b \in BodyIds |->
                                  IF ~InWorld(b) THEN bodies[b]
                                  ELSE [bodies[b] EXCEPT
                                          !.pos = IF b \in moved THEN @ - 1 ELSE @,
                                          !.active = Awake(b) /\ b \notin asleep]]
                  /\ ret' = [op |-> "Update", out |-> "ok",
                             val |-> [contacts |-> ContactPairs, moved |-> moved],
                             hk |-> "none"]

\* gTempAllocator.get() and gJobSystem.get() are null before JoltInit and
\* after JoltShutdown
GlobalsAllocated == globals.gTempAllocator /\ globals.gJobSystem

\* a step handed a null allocator or job system: no outcome is defined
NullGlobalsStep(op, val) ==
    /\ UNCHANGED <<shapes, bodies, copies, ts, tsPos, chars, cv>>
    /\ \E o \in {"crash", "garbage"} :
          ret' = [op |-> op, out |-> o, val |-> val, hk |-> "none"]

\* PhysicsSystem.Update -> JoltPhysicsSystemUpdate, seen from the caller
Update ==
    /\ Running
    /\ IF GlobalsAllocated THEN CollisionStep ELSE NullGlobalsStep("Update", 0)
    /\ UNCHANGED <<jobs, wrapper, globals, files>>

\* jolt.Init -> JoltInit: a new allocator and a new thread pool replace
\* whatever the globals held; the wrapper always returns 1
JoltInit ==
    /\ Running
    /\ globals' = NewGlobals
    /\ ret' = [op |-> "Init", out |-> "ok", val |-> 1, hk |-> "none"]
    /\ UNCHANGED <<shapes, bodies, copies, ts, tsPos, chars, cv, jobs, wrapper, files>>

\* jolt.Shutdown -> JoltShutdown: reset() of both globals, whatever still
\* uses them
JoltShutdown ==
    /\ Running
    /\ globals' = NoGlobals
    /\ ret' = [op |-> "Shutdown", out |-> "ok", val |-> 0, hk |-> "none"]
    /\ UNCHANGED <<shapes, bodies, copies, ts, tsPos, chars, cv, jobs, wrapper, files>>

\* The same call with the job system in view. PhysicsSystem::Update builds the
\* jobs of the step, adds them to a barrier of gJobSystem and waits for it.
UpdateBegin ==
    /\ Running
    /\ \A b \in WorldBodies : Falls(b) => bodies[b].pos > 0
    /\ jobs' = [j \in JobIds |-> [st |-> "queued", by |-> "none"]]
    /\ ret' = [op |-> "Update", out |-> "blocked", val |-> 0, hk |-> "none"]
    /\ UNCHANGED <<shapes, bodies, copies, ts, tsPos, chars, cv, wrapper, globals, files>>

\* a thread of the pool takes a job; the pool has MaxWorkers threads
WorkerExecute(j) ==
    /\ jobs[j].st = "queued"
    /\ Cardinality({k \in JobIds : jobs[k].st = "running"}) < MaxWorkers
    /\ jobs' = [jobs EXCEPT ![j] = [st |-> "running", by |-> "worker"]]
    /\ UNCHANGED <<shapes, bodies, copies, ts, tsPos, chars, cv, ret, wrapper, globals, files>>

WorkerDone(j) ==
    /\ jobs[j].st = "running"
    /\ jobs' = [jobs EXCEPT ![j].st = "done"]
    /\ UNCHANGED <<shapes, bodies, copies, ts, tsPos, chars, cv, ret, wrapper, globals, files>>

\* JobSystem::WaitForJobs: the waiting thread executes jobs of the barrier
\* that nobody has taken
BarrierExecute(j) ==
    /\ ret.out = "blocked"
    /\ jobs[j].st = "queued"
    /\ jobs' = [jobs EXCEPT ![j] = [st |-> "done", by |-> "caller"]]
    /\ UNCHANGED <<shapes, bodies, copies, ts, tsPos, chars, cv, ret, wrapper, globals, files>>

\* ... and returns when no job of the barrier is left
BarrierPassedEarly == \E j \in JobIds : jobs[j].st = "done"
BarrierPassed == \A j \in JobIds : jobs[j].st = "done"

UpdateEnd ==
    /\ ret.op = "Update" /\ ret.out = "blocked"
    /\ BarrierPassed
    /\ CollisionStep
    /\ UNCHANGED <<jobs, wrapper, globals, files>>

\* os.Stat(libPath) returns no error
Exists(f, lib) == f[lib] # NoFile
AllExist(f) == \A i \in DOMAIN RequiredLibs : Exists(f, RequiredLibs[i])

\* what can happen to one download, and where a broken copy stops
DownloadOutcomes == {"createError", "requestError", "badStatus", "copyError", "ok"}
DownloadPlans == [outcome : DownloadOutcomes, copied : 0..(LibSize - 1)]

\* bytes left at the path by downloadFile: os.Create makes the file empty,
\* io.Copy appends what arrives, and no return path removes the file
Downloaded(f, lib, plan) ==
    IF plan.outcome = "createError" THEN f
    ELSE IF plan.outcome \in {"requestError", "badStatus"} THEN [f EXCEPT ![lib] = 0]
    ELSE IF plan.outcome = "copyError" THEN [f EXCEPT ![lib] = plan.copied]
    ELSE [f EXCEPT ![lib] = LibSize]

\* the download loop of ensureLibrariesExist from library i on: skip what
\* exists, stop at the first download that fails
RECURSIVE DownloadLoop(_, _, _, _)
DownloadLoop(i, f, plans, n) ==
    IF i > Len(RequiredLibs) THEN [files |-> f, err |-> "nil", downloads |-> n]
    ELSE LET lib == RequiredLibs[i] IN
         IF Exists(f, lib) THEN DownloadLoop(i + 1, f, plans, n)
         ELSE IF plans[lib].outcome # "ok"
              THEN [files |-> Downloaded(f, lib, plans[lib]), err |-> lib,
                    downloads |-> n + 1]
              ELSE DownloadLoop(i + 1, Downloaded(f, lib, plans[lib]), plans, n + 1)

\* init -> ensureLibrariesExist, once per start of a program that imports
\* the package
EnsureLibrariesExist ==
    /\ Running
    /\ \E mkdirFails \in BOOLEAN : \E plans \in [LibNames -> DownloadPlans] :
          LET r == IF AllExist(files) THEN [files |-> files, err |-> "nil", downloads |-> 0]
                   ELSE IF mkdirFails THEN [files |-> files, err |-> "mkdir", downloads |-> 0]
                   ELSE DownloadLoop(1, files, plans, 0)
          IN /\ files' = r.files
             /\ ret' = [op |-> "ensureLibrariesExist",
                        out |-> IF r.err = "nil" THEN "ok" ELSE "error",
                        val |-> [before |-> files, err |-> r.err, downloads |-> r.downloads],
                        hk |-> "none"]
    /\ UNCHANGED <<shapes, bodies, copies, ts, tsPos, chars, cv, jobs, wrapper, globals>>

\* -------------------------------------------------------- world destruction
\* ~PhysicsSystemWrapper() = default: the members are destroyed in the reverse
\* of the order in which the struct declares them
DestroyOrder ==
    [i \in 1..Len(WrapperMembers) |-> WrapperMembers[Len(WrapperMembers) + 1 - i]]
WrapperIntact == \A i \in DOMAIN WrapperMembers : wrapper[WrapperMembers[i]] = "alive"
WrapperGone == \A i \in DOMAIN WrapperMembers : wrapper[WrapperMembers[i]] = "freed"

\* ~PhysicsSystem deletes the bodies, and each body drops its shape reference
ReleaseBodies(sh) ==
    [s \in ShapeIds |->
        LET n == Cardinality({b \in WorldBodies : bodies[b].shape = s}) IN
        IF n = 0 \/ ~sh[s].alive THEN sh[s]
        ELSE [sh[s] EXCEPT !.rc = sh[s].rc - n, !.alive = sh[s].rc - n > 0]]

\* PhysicsSystem.Destroy -> JoltDestroyPhysicsSystem: delete wrapper
DestroyPhysicsSystemBegin ==
    /\ Running
    /\ WrapperIntact
    /\ ret' = [op |-> "DestroyPhysicsSystem", out |-> "blocked", val |-> 0, hk |-> "none"]
    /\ UNCHANGED <<shapes, bodies, copies, ts, tsPos, chars, cv, jobs, wrapper, globals, files>>

\* the destructor of the next member runs
DestroyMember ==
    /\ ret.op = "DestroyPhysicsSystem" /\ ret.out = "blocked"
    /\ ~WrapperGone
    /\ LET i == CHOOSE k \in DOMAIN DestroyOrder :
                    /\ wrapper[DestroyOrder[k]] = "alive"
                    /\ \A j \in 1..(k - 1) : wrapper[DestroyOrder[j]] = "freed"
           m == DestroyOrder[i]
       IN /\ wrapper' = [wrapper EXCEPT ![m] = "freed"]
          /\ IF m = "system"
             THEN /\ bodies' = [b \in BodyIds |-> NoBody]
                  /\ copies' = [b \in BodyIds |-> 0]
                  /\ shapes' = ReleaseBodies(shapes)
             ELSE UNCHANGED <<shapes, bodies, copies>>
    /\ UNCHANGED <<ts, tsPos, chars, cv, jobs, globals, ret, files>>

DestroyPhysicsSystemEnd ==
    /\ ret.op = "DestroyPhysicsSystem" /\ ret.out = "blocked"
    /\ WrapperGone
    /\ ret' = [op |-> "DestroyPhysicsSystem", out |-> "ok", val |-> 0, hk |-> "none"]
    /\ UNCHANGED <<shapes, bodies, copies, ts, tsPos, chars, cv, jobs, wrapper, globals, files>>

\* NewPhysicsSystem -> JoltCreatePhysicsSystem: the three layer objects, then
\* the system, which is given references to them
NewPhysicsSystem ==
    /\ Running
    /\ WrapperGone
    /\ wrapper' = NewWrapper
    /\ ret' = [op |-> "NewPhysicsSystem", out |-> "handle", val |-> 0, hk |-> "none"]
    /\ UNCHANGED <<shapes, bodies, copies, ts, tsPos, chars, cv, jobs, globals, files>>

\* ----------------------------------------------------------------- queries
\* queries test as an object of layer MOVING
QueryLayer == MOVING

QueryCandidates == {b \in WorldBodies : FiltersAccept(QueryLayer, bodies[b].layer)}

Injective(f) == \A i \in DOMAIN f : \A j \in DOMAIN f : f[i] = f[j] => i = j
\* the orders in which the engine may report the elements of S to a collector
Orders(S) == {f \in [1..Cardinality(S) -> S] : Injective(f)}

Prefix(seq, n) == SubSeq(seq, 1, Min(Len(seq), n))

CountOf(seq, b) == Cardinality({i \in DOMAIN seq : seq[i].body = b})

\* every hit handed to the caller carries a new BodyID(...) for the body
WithCopiesShared(seq) == copies
WithCopies(seq) == [b \in BodyIds |-> copies[b] + CountOf(seq, b)]
CopiesFit(seq) == \A b \in BodyIds : copies[b] + CountOf(seq, b) <= MaxCopies

ShapeHits(p) == {b \in QueryCandidates : Touching(p, bodies[b].pos)}

\* the hits of the overlap query in an order the engine may report them
ShapeReports(p) ==
    {[i \in DOMAIN order |-> [body |-> order[i]]] : order \in Orders(ShapeHits(p))}

\* AnyHitCollector::AddHit sets m_hasHit; HasHit() after the query
AnyHitCollectedNever(reported) == FALSE
AnyHitCollected(reported) == Len(reported) > 0

\* PhysicsSystem.CollideShape -> JoltCollideShape (AnyHitCollector)
CollideShape(s, p) ==
    /\ Running
    /\ shapes[s].h # "none"
    /\ UNCHANGED <<bodies, copies, ts, tsPos, chars, cv, jobs, wrapper, globals, files>>
    /\ IF shapes[s].alive
       THEN /\ shapes' = shapes
            /\ \E reported \in ShapeReports(p) :
                  ret' = [op |-> "CollideShape", out |-> "ok",
                          val |-> [hit |-> AnyHitCollected(reported), p |-> p],
                          hk |-> ShapeHk(s)]
       ELSE /\ shapes' = MarkMisused(shapes, s)
            /\ \E o \in {"crash", "garbage"} :
                  ret' = [op |-> "CollideShape", out |-> o, val |-> FALSE, hk |-> ShapeHk(s)]

\* AllHitsCollector::AddHit over the hits in the order reported: a hit is
\* stored while m_numHits < m_maxHits
AllHitsCollectedOffByOne(reported, maxHits) == Prefix(reported, maxHits + 1)
AllHitsCollected(reported, maxHits) == Prefix(reported, maxHits)

\* PhysicsSystem.CollideShapeGetHits -> JoltCollideShapeGetHits
CollideShapeGetHits(s, p, maxHits) ==
    /\ Running
    /\ shapes[s].h # "none"
    /\ UNCHANGED <<bodies, ts, tsPos, chars, cv, jobs, wrapper, globals, files>>
    /\ IF maxHits <= 0
       THEN /\ UNCHANGED <<shapes, copies, jobs, wrapper, globals, files>>
            /\ ret' = [op |-> "CollideShapeGetHits", out |-> "ok",
                       val |-> [hits |-> <<>>, maxHits |-> maxHits, found |-> ShapeHits(p),
                                p |-> p],
                       hk |-> ShapeHk(s)]
       ELSE IF shapes[s].alive
       THEN /\ shapes' = shapes
            /\ \E reported \in ShapeReports(p) :
                  LET hits == AllHitsCollected(reported, maxHits)
                  IN /\ CopiesFit(hits)
                     /\ copies' = WithCopies(hits)
                     /\ ret' = [op |-> "CollideShapeGetHits", out |-> "ok",
                                val |-> [hits |-> hits, maxHits |-> maxHits,
                                         found |-> ShapeHits(p), p |-> p],
                                hk |-> ShapeHk(s)]
       ELSE /\ shapes' = MarkMisused(shapes, s)
            /\ copies' = copies
            /\ \E o \in {"crash", "garbage"} :
                  ret' = [op |-> "CollideShapeGetHits", out |-> o, val |-> 0, hk |-> ShapeHk(s)]

\* Shape::CastRay on one axis, the shape centred at 0: a ray starting inside
\* a solid shape hits at once; inside a hollow one it hits the far surface
\* when back faces collide and nothing when they are ignored; from outside it
\* hits the near surface when that lies on the segment.
RayShape(o, d, solid, backface) ==
    LET miss == [hasHit |-> FALSE, num |-> 0, den |-> Abs(d)]
        exit == HalfExtent - o * Sign(d)
        entry == Abs(o) - HalfExtent
    IN IF d = 0 THEN miss
       ELSE IF Abs(o) <= HalfExtent
       THEN IF solid THEN [hasHit |-> TRUE, num |-> 0, den |-> Abs(d)]
            ELSE IF backface = BackfaceModeCollideWithAll /\ exit <= Abs(d)
                 THEN [hasHit |-> TRUE, num |-> exit, den |-> Abs(d)]
                 ELSE miss
       ELSE IF Sign(d) = -Sign(o) /\ entry <= Abs(d)
            THEN [hasHit |-> TRUE, num |-> entry, den |-> Abs(d)]
            ELSE miss

\* RayCastSettings settings; (the engine's defaults)
DefaultRayCastSettings == [solid |-> TRUE, backface |-> BackfaceModeIgnore]

\* TransformedShape::CastRay: the ray is taken into the shape's space
TransformedRay(pos, o, d) ==
    RayShape(o - pos, d, DefaultRayCastSettings.solid, DefaultRayCastSettings.backface)

\* NarrowPhaseQuery::CastRay: every candidate body's transformed shape
OnRay(o, d, b) == TransformedRay(bodies[b].pos, o, d).hasHit
RayHits(o, d) == {b \in QueryCandidates : OnRay(o, d, b)}
RayResult(o, d, b) ==
    [body |-> b, num |-> TransformedRay(bodies[b].pos, o, d).num, den |-> Abs(d)]

\* a.mFraction < b.mFraction, both fractions of the same ray
FractionLess(a, b) == a.num * b.den < b.num * a.den

\* ClosestRayHitCollector: m_closestFraction starts at 1.0f and a hit is kept
\* when its fraction is below it
RECURSIVE ClosestFold(_, _, _)
ClosestFold(reported, i, acc) ==
    IF i > Len(reported) THEN acc
    ELSE IF FractionLess(reported[i], acc.closest)
         THEN ClosestFold(reported, i + 1, [hasHit |-> TRUE, closest |-> reported[i]])
         ELSE ClosestFold(reported, i + 1, acc)
ClosestRayHit(reported) ==
    ClosestFold(reported, 1, [hasHit |-> FALSE, closest |-> [body |-> NULL, num |-> 1, den |-> 1]])

\* PhysicsSystem.CastRay -> JoltCastRay
CastRay(o, d) ==
    /\ Running
    /\ UNCHANGED <<shapes, bodies, ts, tsPos, chars, cv, jobs, wrapper, globals, files>>
    /\ \E order \in Orders(RayHits(o, d)) :
          LET res == ClosestRayHit([i \in DOMAIN order |-> RayResult(o, d, order[i])])
              hits == IF res.hasHit THEN <<res.closest>> ELSE <<>>
          IN /\ CopiesFit(hits)
             /\ copies' = WithCopies(hits)
             /\ ret' = [op |-> "CastRay", out |-> "ok",
                        val |-> [hasHit |-> res.hasHit, hits |-> hits, o |-> o, d |-> d,
                                 found |-> {RayResult(o, d, b) : b \in RayHits(o, d)}],
                        hk |-> "none"]

\* AllRayHitsCollector::AddHit: m_numHits is still 0 while hits come in, so
\* every hit is kept when maxHits > 0
AllRayHitsCollectedCapped(reported, maxHits) == Prefix(reported, maxHits)
AllRayHitsCollected(reported, maxHits) == IF 0 < maxHits THEN reported ELSE <<>>

SortedByFraction(seq) ==
    \A i \in DOMAIN seq : \A j \in DOMAIN seq : i < j => ~FractionLess(seq[j], seq[i])


\* AllRayHitsCollector::Finalize: std::sort by mFraction (ties in any order),
\* then the first min(size, maxHits) are written out
FinalizeUnsorted(collected, maxHits) == {Prefix(collected, maxHits)}
Finalize(collected, maxHits) ==
    {Prefix(sorted, maxHits) :
        sorted \in {f \in Orders({collected[i] : i \in DOMAIN collected}) : SortedByFraction(f)}}

\* PhysicsSystem.CastRayGetHits -> JoltCastRayGetHits
CastRayGetHits(o, d, maxHits) ==
    /\ Running
    /\ UNCHANGED <<shapes, bodies, ts, tsPos, chars, cv, jobs, wrapper, globals, files>>
    /\ IF maxHits <= 0
       THEN /\ copies' = copies
            /\ ret' = [op |-> "CastRayGetHits", out |-> "ok",
                       val |-> [hits |-> <<>>, maxHits |-> maxHits,
                                found |-> {RayResult(o, d, b) : b \in RayHits(o, d)}],
                       hk |-> "none"]
       ELSE \E order \in Orders(RayHits(o, d)) :
              \E hits \in Finalize(AllRayHitsCollected(
                                      [i \in DOMAIN order |-> RayResult(o, d, order[i])],
                                      maxHits), maxHits) :
                 /\ CopiesFit(hits)
                 /\ copies' = WithCopies(hits)
                 /\ ret' = [op |-> "CastRayGetHits", out |-> "ok",
                            val |-> [hits |-> hits, maxHits |-> maxHits,
                                     found |-> {RayResult(o, d, b) : b \in RayHits(o, d)}],
                            hk |-> "none"]

\* JoltShapeCastRay: s->CastRay(ray, sub_shape_creator, result), the overload
\* that takes no settings; backfaceMode and treatConvexAsSolid are not read
ShapeCastRayUsesHollow(backfaceMode, treatConvexAsSolid) ==
    [solid |-> FALSE, backface |-> BackfaceModeCollideWithAll]
ShapeCastRayUses(backfaceMode, treatConvexAsSolid) == DefaultRayCastSettings

ShapeCastRayResult(o, d, backfaceMode, treatConvexAsSolid) ==
    RayShape(o, d, ShapeCastRayUses(backfaceMode, treatConvexAsSolid).solid,
             ShapeCastRayUses(backfaceMode, treatConvexAsSolid).backface)

\* Shape.CastRay -> JoltShapeCastRay: the shape sits at the origin of its own
\* space; only a null handle is checked
ShapeCastRay(s, o, d, backfaceMode, treatConvexAsSolid) ==
    /\ Running
    /\ shapes[s].h # "none"
    /\ UNCHANGED <<bodies, copies, ts, tsPos, chars, cv, jobs, wrapper, globals, files>>
    /\ IF shapes[s].alive
       THEN /\ shapes' = shapes
            /\ LET r == ShapeCastRayResult(o, d, backfaceMode, treatConvexAsSolid) IN
               ret' = [op |-> "ShapeCastRay", out |-> "ok",
                       val |-> [hasHit |-> r.hasHit, num |-> r.num, den |-> r.den,
                                o |-> o, d |-> d, backfaceMode |-> backfaceMode,
                                treatConvexAsSolid |-> treatConvexAsSolid],
                       hk |-> ShapeHk(s)]
       ELSE /\ shapes' = MarkMisused(shapes, s)
            /\ \E o2 \in {"crash", "garbage"} :
                  ret' = [op |-> "ShapeCastRay", out |-> o2, val |-> 0, hk |-> ShapeHk(s)]

\* TransformedShape.CastRay -> JoltTransformedShapeCastRay
TransformedShapeCastRayResult(t, o, d) == TransformedRay(tsPos[t], o, d)

TransformedShapeCastRay(t, o, d) ==
    /\ Running
    /\ ts[t] # NULL
    /\ UNCHANGED <<bodies, copies, ts, tsPos, chars, cv, jobs, wrapper, globals, files>>
    /\ IF shapes[ts[t]].alive
       THEN /\ shapes' = shapes
            /\ LET r == TransformedShapeCastRayResult(t, o, d) IN
               ret' = [op |-> "TransformedShapeCastRay", out |-> "ok",
                       val |-> [hasHit |-> r.hasHit, num |-> r.num, den |-> r.den,
                                o |-> o, d |-> d, ts |-> t],
                       hk |-> "none"]
       ELSE /\ shapes' = MarkMisused(shapes, ts[t])
            /\ \E o2 \in {"crash", "garbage"} :
                  ret' = [op |-> "TransformedShapeCastRay", out |-> o2, val |-> 0, hk |-> "none"]

\* ---------------------------------------------------- virtual characters
\* the character collides as an object of layer MOVING
CharacterLayer == MOVING
CharCandidates == {b \in WorldBodies : FiltersAccept(CharacterLayer, bodies[b].layer)}

\* the character's shape is swept along its velocity and stops where it
\* touches a body (n unit moves left)
Blocked(p, dir) == \E b \in CharCandidates : bodies[b].pos \in {p, p + dir}
RECURSIVE SweepN(_, _, _)
SweepN(p, dir, n) ==
    IF n = 0 \/ dir = 0 \/ Blocked(p, dir) THEN p ELSE SweepN(p + dir, dir, n - 1)
MoveShape(p, v) == SweepN(p, Sign(v), Abs(v))

\* contacts of a character at p
ContactsAt(p) == {b \in CharCandidates : Touching(p, bodies[b].pos)}

\* UpdateSupportingContact: a contact counts when the character is not moving
\* away from it; a counted contact below supports the character, on ground or
\* on steep ground by the slope there; counted contacts that do not support
\* leave it not supported; with none it is in the air. A body the character
\* is inside of can act as any of these.
Counted(p, v, b) ==
    \/ bodies[b].pos = p
    \/ bodies[b].pos < p /\ v <= 0
    \/ bodies[b].pos > p /\ v >= 0
GroundStatesAt(p, v, site) ==
    IF \E b \in ContactsAt(p) : bodies[b].pos = p
    THEN {JoltGroundStateOnGround, JoltGroundStateOnSteepGround, JoltGroundStateNotSupported}
    ELSE IF \E b \in ContactsAt(p) : bodies[b].pos < p /\ Counted(p, v, b)
    THEN IF site = "flat" THEN {JoltGroundStateOnGround} ELSE {JoltGroundStateOnSteepGround}
    ELSE IF \E b \in ContactsAt(p) : Counted(p, v, b)
    THEN {JoltGroundStateNotSupported}
    ELSE {JoltGroundStateInAir}

\* StoreActiveContacts at p: the active contacts and the ground state are
\* replaced together
StoreActiveContacts(ch, p) ==
    {[ch EXCEPT !.pos = p, !.contacts = order, !.ground = g] :
        order \in Orders(ContactsAt(p)), g \in GroundStatesAt(p, ch.vel, ch.site)}

\* CharacterVirtual::Update on one axis; ExtendedUpdate adds StickToFloor and
\* WalkStairs, which need a floor within the step-down distance or horizontal
\* velocity and change nothing on the vertical axis
CharacterStep(ch) == StoreActiveContacts(ch, MoveShape(ch.pos, ch.vel))

\* CharacterVirtual.Update / ExtendedUpdate -> JoltCharacterVirtualUpdate /
\* JoltCharacterVirtualExtendedUpdate
CharStepCall(c, op) ==
    /\ Running
    /\ chars[c] # NULL
    /\ MoveShape(cv[c].pos, cv[c].vel) \in Positions
    /\ UNCHANGED <<shapes, bodies, copies, ts, tsPos, chars, jobs, wrapper, globals, files>>
    /\ IF /\ globals.gTempAllocator
          /\ shapes[chars[c]].alive /\ \A b \in WorldBodies : shapes[bodies[b].shape].alive
       THEN /\ \E n \in CharacterStep(cv[c]) : cv' = [cv EXCEPT ![c] = n]
            /\ ret' = [op |-> op, out |-> "ok", val |-> c, hk |-> "none"]
       ELSE /\ cv' = cv
            /\ \E o \in {"crash", "garbage"} :
                  ret' = [op |-> op, out |-> o, val |-> c, hk |-> "none"]
CharUpdate(c) == CharStepCall(c, "CharUpdate")
CharExtendedUpdate(c) == CharStepCall(c, "CharExtendedUpdate")

\* CharacterVirtual.SetLinearVelocity -> JoltCharacterVirtualSetLinearVelocity
CharSetLinearVelocity(c, v) ==
    /\ Running
    /\ chars[c] # NULL
    /\ UNCHANGED <<shapes, bodies, copies, ts, tsPos, chars, jobs, wrapper, globals, files>>
    /\ cv' = [cv EXCEPT ![c].vel = v]
    /\ ret' = [op |-> "CharSetLinearVelocity", out |-> "ok", val |-> c, hk |-> "none"]

\* a SetPosition that forgets the contacts at the old position
CharSetPositionClearsContacts(c, p, site) ==
    /\ Running
    /\ chars[c] # NULL
    /\ UNCHANGED <<shapes, bodies, copies, ts, tsPos, chars, jobs, wrapper, globals, files>>
    /\ cv' = [cv EXCEPT ![c].pos = p, ![c].site = site, ![c].contacts = <<>>]
    /\ ret' = [op |-> "CharSetPosition", out |-> "ok", val |-> c, hk |-> "none"]

\* CharacterVirtual.SetPosition -> JoltCharacterVirtualSetPosition: contacts
\* and ground state stay as the last step left them
CharSetPosition(c, p, site) ==
    /\ Running
    /\ chars[c] # NULL
    /\ UNCHANGED <<shapes, bodies, copies, ts, tsPos, chars, jobs, wrapper, globals, files>>
    /\ cv' = [cv EXCEPT ![c].pos = p, ![c].site = site]
    /\ ret' = [op |-> "CharSetPosition", out |-> "ok", val |-> c, hk |-> "none"]

\* CharacterVirtual.GetGroundState -> JoltCharacterVirtualGetGroundState:
\* static_cast<JoltGroundState>(state), then GroundState(state)
GetGroundState(c) ==
    /\ Running
    /\ chars[c] # NULL
    /\ UNCHANGED <<shapes, bodies, copies, ts, tsPos, chars, cv, jobs, wrapper, globals, files>>
    /\ ret' = [op |-> "GetGroundState", out |-> "ok",
               val |-> [char |-> c, state |-> cv[c].ground], hk |-> "none"]

\* CharacterBase::IsSupported
CharacterIsSupported(ch) ==
    ch.ground = JoltGroundStateOnGround \/ ch.ground = JoltGroundStateOnSteepGround

\* JoltCharacterVirtualIsSupported: cv->IsSupported() ? 1 : 0
IsSupportedInt(ch) == IF CharacterIsSupported(ch) THEN 1 ELSE 0
\* CharacterVirtual.IsSupported: result != 0
IsSupportedResultInverted(ch) == IsSupportedInt(ch) = 0
IsSupportedResult(ch) == IsSupportedInt(ch) # 0

IsSupported(c) ==
    /\ Running
    /\ chars[c] # NULL
    /\ UNCHANGED <<shapes, bodies, copies, ts, tsPos, chars, cv, jobs, wrapper, globals, files>>
    /\ ret' = [op |-> "IsSupported", out |-> "ok",
               val |-> [char |-> c, supported |-> IsSupportedResult(cv[c])], hk |-> "none"]

\* CharacterVirtual::SetShape: with a finite maxPenetrationDepth the contacts
\* of the new shape are collected and the change is refused when one of them
\* is deeper than allowed; otherwise they become the active contacts
Penetrates(p) == \E b \in ContactsAt(p) : bodies[b].pos = p

\* CharacterVirtual.SetShape -> JoltCharacterVirtualSetShape: both are void,
\* the engine's bool is dropped
SetShapeReturned(applied) == "void"

CharSetShape(c, s, checked) ==
    /\ Running
    /\ chars[c] # NULL
    /\ shapes[s].h # "none"
    /\ UNCHANGED <<bodies, copies, ts, tsPos, jobs, wrapper, globals, files>>
    /\ IF ~shapes[s].alive \/ ~shapes[chars[c]].alive \/ ~globals.gTempAllocator
       THEN /\ shapes' = IF shapes[s].alive /\ shapes[chars[c]].alive
                         THEN shapes ELSE MarkMisused(shapes, s)
            /\ UNCHANGED <<chars, cv>>
            /\ \E o \in {"crash", "garbage"} :
                  ret' = [op |-> "CharSetShape", out |-> o,
                          val |-> [char |-> c, applied |-> FALSE, returned |-> "void"],
                          hk |-> ShapeHk(s)]
       ELSE LET applied == s = chars[c] \/ ~checked \/ ~Penetrates(cv[c].pos) IN
            /\ chars' = IF applied THEN [chars EXCEPT ![c] = s] ELSE chars
            /\ shapes' = IF applied /\ s # chars[c]
                         THEN Release(AddRef(shapes, s), chars[c]) ELSE shapes
            /\ IF applied /\ checked /\ s # chars[c]
               THEN \E n \in StoreActiveContacts(cv[c], cv[c].pos) : cv' = [cv EXCEPT ![c] = n]
               ELSE cv' = cv
            /\ ret' = [op |-> "CharSetShape", out |-> "ok",
                       val |-> [char |-> c, applied |-> applied,
                                returned |-> SetShapeReturned(applied)],
                       hk |-> ShapeHk(s)]

\* JoltCharacterVirtualGetActiveContacts: the first min(size, maxContacts)
\* active contacts, each with a new BodyID
ActiveContactsCopied(active, maxContacts) ==
    [i \in 1..(IF Len(active) < maxContacts THEN Len(active) ELSE maxContacts) |->
        [body |-> active[i]]]

\* CharacterVirtual.GetActiveContacts: make([]C.JoltCharacterContact,
\* maxContacts), then &cContacts[0]
GetActiveContacts(c, maxContacts) ==
    /\ Running
    /\ chars[c] # NULL
    /\ UNCHANGED <<shapes, bodies, ts, tsPos, chars, cv, jobs, wrapper, globals, files>>
    /\ IF maxContacts <= 0
       THEN \* make panics on a negative length, the index on an empty slice
            /\ copies' = copies
            /\ ret' = [op |-> "GetActiveContacts", out |-> "crash",
                       val |-> [contacts |-> <<>>, maxContacts |-> maxContacts,
                                active |-> cv[c].contacts],
                       hk |-> "none"]
       ELSE LET out == ActiveContactsCopied(cv[c].contacts, maxContacts) IN
            /\ CopiesFit(out)
            /\ copies' = WithCopies(out)
            /\ ret' = [op |-> "GetActiveContacts", out |-> "ok",
                       val |-> [contacts |-> out, maxContacts |-> maxContacts,
                                active |-> cv[c].contacts],
                       hk |-> "none"]

\* PlayerController.ApplyInput (example): the velocity is read, the ground
\* velocity when supported, a jump is applied when supported, gravity is
\* added, then SetLinearVelocity and ExtendedUpdate. Speeds above MaxV are
\* cut to MaxV.
JumpSpeed == MaxV
GravityStep == 1
ClampV(v) == IF v < -MaxV THEN -MaxV ELSE IF v > MaxV THEN MaxV ELSE v
InputVelocityNoGravity(ch, jump) ==
    IF jump /\ IsSupportedResult(ch) THEN JumpSpeed
    ELSE IF IsSupportedResult(ch) THEN 0 ELSE ch.vel
InputVelocity(ch, jump) ==
    LET read == IF IsSupportedResult(ch) THEN 0 ELSE ch.vel
        jumped == IF jump /\ IsSupportedResult(ch) THEN JumpSpeed ELSE read
    IN ClampV(jumped - GravityStep)

ApplyInput(c, jump) ==
    /\ Running
    /\ chars[c] # NULL
    /\ shapes[chars[c]].alive
    /\ \A b \in WorldBodies : shapes[bodies[b].shape].alive
    /\ UNCHANGED <<shapes, bodies, copies, ts, tsPos, chars, jobs, wrapper, globals, files>>
    /\ LET ch == [cv[c] EXCEPT !.vel = InputVelocity(cv[c], jump)] IN
       /\ MoveShape(ch.pos, ch.vel) \in Positions
       /\ \E n \in CharacterStep(ch) : cv' = [cv EXCEPT ![c] = n]
    /\ ret' = [op |-> "ApplyInput", out |-> "ok", val |-> c, hk |-> "none"]

\* the caller is done with the outcome of its last call
Return ==
    /\ ret # NoRet
    /\ ret.out \notin {"crash", "blocked"}
    /\ ret' = NoRet
    /\ UNCHANGED <<shapes, bodies, copies, ts, tsPos, chars, cv, jobs, wrapper, globals, files>>

HandleKinds == {"live", "stale", "copy"}
ValidHandleKinds == {"live", "copy"}
\* rays that stay inside the world
Rays == {r \in Positions \X ((-MaxY)..MaxY) : r[2] # 0 /\ r[1] + r[2] \in Positions}
\* rays in the space of a shape, from either side of it
ShapeRays == {r \in ((-MaxY - HalfExtent)..(MaxY + HalfExtent)) \X ((-MaxY)..MaxY) : r[2] # 0}
MaxHitsArgs == (-1)..MaxHitsArg

\* ----------------------------------------------------------- specifications
\* Handle lifetimes: every handle operation, stale uses included, on dynamic
\* bodies created at height 0.
Next ==
    \/ \E kind \in ShapeKinds : \E param \in ParamsOf(kind) : CreateShape(kind, param)
    \/ \E s \in ShapeIds : DestroyShape(s)
    \/ \E s \in ShapeIds : CreateBody(s, 0, JoltMotionTypeDynamic)
    \/ \E b \in BodyIds : \E hk \in HandleKinds : DestroyBodyID(b, hk)
    \/ \E b \in BodyIds : \E hk \in HandleKinds : GetPosition(b, hk)
    \/ \E b \in BodyIds : \E hk \in HandleKinds : SetPosition(b, hk, 0)
    \/ \E b \in BodyIds : \E hk \in HandleKinds : ActivateBody(b, hk)
    \/ \E b \in BodyIds : \E hk \in HandleKinds : DeactivateBody(b, hk)
    \/ \E b \in BodyIds : \E hk \in HandleKinds : \E s \in ShapeIds : SetShape(b, hk, s)
    \/ \E s \in ShapeIds : CreateTransformedShape(s, 0)
    \/ \E t \in TSIds : DestroyTransformedShape(t)
    \/ \E s \in ShapeIds : CreateCharacterVirtual(s, 0, "flat")
    \/ \E c \in CharIds : DestroyCharacterVirtual(c)
    \/ \E s \in ShapeIds : \E r \in Rays :
          ShapeCastRay(s, r[1], r[2], BackfaceModeIgnore, TRUE)
    \/ Return

Spec == Init /\ [][Next]_vars

\* The world: one valid shape shared by bodies of every motion type at every
\* height, used through valid handles only; steps and queries.
NextWorld ==
    \/ HeldShapes = {} /\ CreateShape("Sphere", "valid")
    \/ \E s \in ShapeIds : \E p \in Positions : \E mt \in MotionTypes : CreateBody(s, p, mt)
    \/ \E b \in BodyIds : \E hk \in ValidHandleKinds : DestroyBodyID(b, hk)
    \/ \E b \in BodyIds : \E hk \in ValidHandleKinds : GetPosition(b, hk)
    \/ \E b \in BodyIds : \E hk \in ValidHandleKinds : \E p \in Positions : SetPosition(b, hk, p)
    \/ \E b \in BodyIds : \E hk \in ValidHandleKinds : ActivateBody(b, hk)
    \/ \E b \in BodyIds : \E hk \in ValidHandleKinds : DeactivateBody(b, hk)
    \/ \E b \in BodyIds : \E hk \in ValidHandleKinds : \E s \in ShapeIds : SetShape(b, hk, s)
    \/ Update
    \/ \E s \in ShapeIds : \E p \in Positions : CollideShape(s, p)
    \/ \E s \in ShapeIds : \E p \in Positions : \E m \in MaxHitsArgs :
          CollideShapeGetHits(s, p, m)
    \/ \E r \in Rays : CastRay(r[1], r[2])
    \/ \E r \in Rays : \E m \in MaxHitsArgs : CastRayGetHits(r[1], r[2], m)
    \/ Return

SpecWorld == Init /\ [][NextWorld]_vars

\* Characters: static platforms of the first shape, characters placed over
\* flat or steep ground, moved, stepped and inspected.
MaxContactsArgs == (-1)..MaxHitsArg
NextChar ==
    \/ CreateShape("Box", "valid")
    \/ \E p \in Positions : CreateBody(1, p, JoltMotionTypeStatic)
    \/ \E b \in BodyIds : DestroyBodyID(b, "copy")
    \/ \E s \in ShapeIds : \E p \in Positions : \E site \in Sites :
          CreateCharacterVirtual(s, p, site)
    \/ \E c \in CharIds : DestroyCharacterVirtual(c)
    \/ \E c \in CharIds : CharUpdate(c)
    \/ \E c \in CharIds : CharExtendedUpdate(c)
    \/ \E c \in CharIds : \E v \in Velocities : CharSetLinearVelocity(c, v)
    \/ \E c \in CharIds : \E p \in Positions : \E site \in Sites : CharSetPosition(c, p, site)
    \/ \E c \in CharIds : GetGroundState(c)
    \/ \E c \in CharIds : IsSupported(c)
    \/ \E c \in CharIds : \E s \in ShapeIds : \E checked \in BOOLEAN : CharSetShape(c, s, checked)
    \/ \E c \in CharIds : \E m \in MaxContactsArgs : GetActiveContacts(c, m)
    \/ \E c \in CharIds : \E jump \in BOOLEAN : ApplyInput(c, jump)
    \/ Return

SpecChar == Init /\ [][NextChar]_vars

\* Shape handles: the one of the constructor and the ones of GetShape, with
\* the bodies, transformed shapes and characters that use the shape.
NextShapeRefs ==
    \/ CreateShape("Sphere", "valid")
    \/ \E s \in ShapeIds : DestroyShape(s)
    \/ WorldBodies = {} /\ \E s \in ShapeIds : CreateBody(s, 0, JoltMotionTypeStatic)
    \/ \E s \in ShapeIds : CreateTransformedShape(s, 0)
    \/ \E t \in TSIds : DestroyTransformedShape(t)
    \/ \E s \in ShapeIds : CreateCharacterVirtual(s, MaxY, "flat")
    \/ \E c \in CharIds : DestroyCharacterVirtual(c)
    \/ \E c \in CharIds : \E s \in ShapeIds : CharSetShape(c, s, FALSE)
    \/ \E c \in CharIds : CharGetShape(c)
    \/ \E s \in ShapeIds : DestroyGotShape(s)
    \/ \E c \in CharIds : CharExtendedUpdate(c)
    \/ Return

SpecShapeRefs == Init /\ [][NextShapeRefs]_vars

\* The life of a world: made, filled, stepped, destroyed member by member,
\* made again. The caller uses a world only while it has it.
NextDestroy ==
    \/ HeldShapes = {} /\ CreateShape("Sphere", "valid")
    \/ WrapperIntact /\ \E s \in ShapeIds : \E p \in Positions : \E mt \in MotionTypes :
          CreateBody(s, p, mt)
    \/ WrapperIntact /\ \E b \in BodyIds : ActivateBody(b, "live")
    \/ WrapperIntact /\ Update
    \/ DestroyPhysicsSystemBegin
    \/ DestroyMember
    \/ DestroyPhysicsSystemEnd
    \/ NewPhysicsSystem
    \/ Return

SpecDestroy == Init /\ [][NextDestroy]_vars

\* Starts of a program that imports the package, each running init, and what
\* the program then does with the library.
NextDownload ==
    \/ EnsureLibrariesExist
    \/ JoltInit
    \/ JoltShutdown
    \/ HeldShapes = {} /\ CreateShape("Sphere", "valid")
    \/ Return

SpecDownload == Init /\ [][NextDownload]_vars

\* Init and Shutdown among the steps of a world and of a character: nothing
\* in the Go package or in the wrapper ties a step to an earlier Init.
NextGlobals ==
    \/ JoltInit
    \/ JoltShutdown
    \/ \E kind \in {"Sphere", "Box"} : CreateShape(kind, "valid")
    \/ \E s \in ShapeIds : \E p \in Positions : \E mt \in MotionTypes : CreateBody(s, p, mt)
    \/ \E b \in BodyIds : ActivateBody(b, "live")
    \/ Update
    \/ \E s \in ShapeIds : CreateCharacterVirtual(s, MaxY, "flat")
    \/ \E c \in CharIds : CharUpdate(c)
    \/ \E c \in CharIds : CharExtendedUpdate(c)
    \/ \E c \in CharIds : \E s \in ShapeIds : \E checked \in BOOLEAN : CharSetShape(c, s, checked)
    \/ Return

SpecGlobals == Init /\ [][NextGlobals]_vars

\* BodyID handles: the one of CreateBody and the ones handed out in the hits
\* of the queries and in the contacts of a character.
NextCopies ==
    \/ HeldShapes = {} /\ CreateShape("Sphere", "valid")
    \/ \E s \in ShapeIds : \E p \in Positions : CreateBody(s, p, JoltMotionTypeStatic)
    \/ \E b \in BodyIds : \E hk \in ValidHandleKinds : DestroyBodyID(b, hk)
    \/ \E s \in ShapeIds : \E p \in Positions : CreateCharacterVirtual(s, p, "flat")
    \/ \E c \in CharIds : CharExtendedUpdate(c)
    \/ \E c \in CharIds : CharSetLinearVelocity(c, -1)
    \/ \E c \in CharIds : \E m \in 1..MaxHitsArg : GetActiveContacts(c, m)
    \/ \E s \in ShapeIds : \E p \in Positions : CollideShapeGetHits(s, p, MaxHitsArg)
    \/ \E r \in Rays : CastRay(r[1], r[2])
    \/ \E r \in Rays : CastRayGetHits(r[1], r[2], MaxHitsArg)
    \/ Return

SpecCopies == Init /\ [][NextCopies]_vars

\* Rays: one sphere, alone, in a transformed shape or as the one body of the
\* world, tested through each of the three ray casts.
NextRay ==
    \/ HeldShapes = {} /\ CreateShape("Sphere", "valid")
    \/ WorldBodies = {} /\ \E s \in ShapeIds : \E p \in Positions : \E mt \in MotionTypes :
          CreateBody(s, p, mt)
    \/ \E b \in BodyIds : DestroyBodyID(b, "copy")
    \/ \E s \in ShapeIds : \E p \in Positions : CreateTransformedShape(s, p)
    \/ \E t \in TSIds : DestroyTransformedShape(t)
    \/ \E s \in ShapeIds : \E r \in ShapeRays : \E bf \in BackfaceModes : \E solid \in BOOLEAN :
          ShapeCastRay(s, r[1], r[2], bf, solid)
    \/ \E t \in TSIds : \E r \in Rays : TransformedShapeCastRay(t, r[1], r[2])
    \/ \E r \in Rays : CastRay(r[1], r[2])
    \/ Return

SpecRay == Init /\ [][NextRay]_vars

\* Steps with the job system in view: Update hands its jobs to the pool and
\* waits; the character's ExtendedUpdate runs on the calling thread.
NextJobs ==
    \/ HeldShapes = {} /\ CreateShape("Box", "valid")
    \/ \E s \in ShapeIds : \E p \in Positions : \E mt \in MotionTypes : CreateBody(s, p, mt)
    \/ \E b \in BodyIds : ActivateBody(b, "live")
    \/ \E s \in ShapeIds : \E p \in Positions : CreateCharacterVirtual(s, p, "flat")
    \/ \E c \in CharIds : CharExtendedUpdate(c)
    \/ UpdateBegin
    \/ \E j \in JobIds : WorkerExecute(j)
    \/ \E j \in JobIds : WorkerDone(j)
    \/ \E j \in JobIds : BarrierExecute(j)
    \/ UpdateEnd
    \/ Return

SpecJobs == Init /\ [][NextJobs]_vars

\* The example's drop: platforms first, then a character over flat ground
\* that the controller steps with no key pressed, again and again.
NextFall ==
    \/ CreateShape("Box", "valid")
    \/ (\A c \in CharIds : chars[c] = NULL) /\ \E p \in Positions :
          CreateBody(1, p, JoltMotionTypeStatic)
    \/ \E b \in BodyIds : DestroyBodyID(b, "copy")
    \/ \E s \in ShapeIds : \E p \in Positions : CreateCharacterVirtual(s, p, "flat")
    \/ \E c \in CharIds : GetGroundState(c)
    \/ \E c \in CharIds : IsSupported(c)
    \/ \E c \in CharIds : \E m \in 1..MaxHitsArg : GetActiveContacts(c, m)
    \/ \E c \in CharIds : ApplyInput(c, FALSE)
    \/ Return

\* the loop of each character's controller calls ApplyInput every frame and
\* every call returns
SpecFall ==
    /\ Init
    /\ [][NextFall]_vars
    /\ \A c \in CharIds : SF_vars(ApplyInput(c, FALSE))
    /\ WF_vars(Return)

\* ------------------------------------------------------------------ claims
\* the bodies a finished call reported to the caller
Reported ==
    CASE ret.out # "ok" -> {}
      [] ret.op = "Update" -> ret.val.moved \cup UNION ret.val.contacts
      [] ret.op \in {"CastRay", "CastRayGetHits", "CollideShapeGetHits"} ->
            {ret.val.hits[i].body : i \in DOMAIN ret.val.hits}
      [] OTHER -> {}

C2_StaleHandleDetected ==
    ret.hk = "stale" => ret.out = "invalid_handle"

\* C3: a shape whose handle was never misused is freed exactly when its last
\* reference is released: its count is the caller's reference plus one per
\* body, transformed shape and character holding it, and it is alive as long
\* as the count is positive, so a holder's shape outlives the caller's handle.
C3_ShapeLivesWhileReferenced ==
    \A s \in ShapeIds :
        shapes[s].h \in {"live", "destroyed"} =>
            /\ shapes[s].rc = (IF shapes[s].h = "live" THEN 1 ELSE 0)
                              + Cardinality({b \in WorldBodies : bodies[b].shape = s})
                              + Cardinality({t \in TSIds : ts[t] = s})
                              + Cardinality({c \in CharIds : chars[c] = s})
            /\ shapes[s].alive <=> shapes[s].rc > 0
            /\ (\E b \in WorldBodies : bodies[b].shape = s) => shapes[s].alive

\* the caller destroyed its handle and a transformed shape or character has
\* just been destroyed; the body's reference is the last one and the shape
\* is still there
C3_Witness ==
    \E s \in ShapeIds :
        /\ shapes[s].h = "destroyed"
        /\ shapes[s].alive
        /\ shapes[s].rc = 1
        /\ \E b \in WorldBodies : bodies[b].shape = s
        /\ ret.op \in {"DestroyTransformedShape", "DestroyCharacterVirtual"}

\* C4: CreateBody adds the body without activating it, and a step leaves the
\* position of a body unchanged that is inactive before and after the step.
C4_CreatedBodyInactive ==
    [][/\ (ret'.op = "CreateBody" /\ ret'.val # NULL) =>
             /\ bodies'[ret'.val].h # "none"
             /\ ~bodies'[ret'.val].active
       /\ ret'.op = "Update" =>
             \A b \in WorldBodies :
                (~bodies[b].active /\ ~bodies'[b].active) => bodies'[b].pos = bodies[b].pos]_vars

\* a step has just run over a lone dynamic body that was never activated and
\* still hangs at the top of the world
C4_Witness ==
    /\ ret.op = "Update"
    /\ ret.out = "ok"
    /\ \E b \in WorldBodies :
          /\ WorldBodies = {b}
          /\ bodies[b].req = JoltMotionTypeDynamic
          /\ ~bodies[b].active
          /\ bodies[b].pos = MaxY

\* C5 (as stated): a CreateBody that could not create a body never hands the
\* caller a BodyID object; it reports an error.
C5_FullWorldReportsError ==
    (ret.op = "CreateBody" /\ ret.out # "crash" /\ ret.val = NULL) => ret.out = "error"

\* C6 (as stated): creating a shape from parameters the engine rejects ends
\* with a null handle, without a crash and without a made-up handle.
C6_InvalidShapeReturnsNull ==
    (ret.op = "CreateShape" /\ ret.val = NULL) => ret.out = "null"

\* C7: a step never reports a contact between two bodies that were both
\* created with MotionTypeStatic, wherever SetPosition has put them.
C7_NoStaticStaticContact ==
    (ret.op = "Update" /\ ret.out = "ok") =>
        \A pr \in ret.val.contacts :
            \E b \in pr : bodies[b].req # JoltMotionTypeStatic

\* a step has just run with two static bodies at the same height
C7_Witness ==
    /\ ret.op = "Update"
    /\ ret.out = "ok"
    /\ \E a \in WorldBodies : \E b \in WorldBodies :
          /\ a # b
          /\ bodies[a].req = JoltMotionTypeStatic
          /\ bodies[b].req = JoltMotionTypeStatic
          /\ bodies[a].pos = bodies[b].pos

\* C8: both layer filters reject NON_MOVING against NON_MOVING, accept
\* NON_MOVING against MOVING and accept MOVING against every layer; a contact
\* a step reports is between layers both filters accept.
C8_LayerFilterTable ==
    /\ ~ObjectLayerPairShouldCollide(NON_MOVING, NON_MOVING)
    /\ ObjectLayerPairShouldCollide(NON_MOVING, MOVING)
    /\ \A x \in Layers : ObjectLayerPairShouldCollide(MOVING, x)
    /\ ~ObjectVsBroadPhaseShouldCollide(NON_MOVING, BP_NON_MOVING)
    /\ ObjectVsBroadPhaseShouldCollide(NON_MOVING, BP_MOVING)
    /\ \A x \in BroadPhaseLayers : ObjectVsBroadPhaseShouldCollide(MOVING, x)
    /\ (ret.op = "Update" /\ ret.out = "ok") =>
          \A pr \in ret.val.contacts : \E b \in pr : bodies[b].layer = MOVING

\* a step has just reported a contact between a MOVING and a NON_MOVING body
C8_Witness ==
    /\ ret.op = "Update"
    /\ ret.out = "ok"
    /\ \E pr \in ret.val.contacts :
          {bodies[b].layer : b \in pr} = {NON_MOVING, MOVING}

\* C9: CollideShapeGetHits and CastRayGetHits return min(maxHits, N) results
\* when the query finds N hits, and none when maxHits <= 0.
C9_HitCount ==
    (ret.op \in {"CollideShapeGetHits", "CastRayGetHits"} /\ ret.out = "ok") =>
        Len(ret.val.hits) =
            IF ret.val.maxHits <= 0 THEN 0
            ELSE IF ret.val.maxHits < Cardinality(ret.val.found) THEN ret.val.maxHits
            ELSE Cardinality(ret.val.found)

\* a shape query found more hits than the caller asked for
C9_Witness ==
    /\ ret.op = "CollideShapeGetHits"
    /\ ret.out = "ok"
    /\ ret.val.maxHits = 1
    /\ Cardinality(ret.val.found) = 2
    /\ Len(ret.val.hits) = 1

\* C10: the hits CastRayGetHits returns are in non-decreasing order of their
\* fraction along the ray.
C10_HitsSortedByFraction ==
    (ret.op = "CastRayGetHits" /\ ret.out = "ok") =>
        \A i \in 1..(Len(ret.val.hits) - 1) :
            ret.val.hits[i].num * ret.val.hits[i + 1].den
                <= ret.val.hits[i + 1].num * ret.val.hits[i].den

\* a ray query has returned two hits at different fractions
C10_Witness ==
    /\ ret.op = "CastRayGetHits"
    /\ ret.out = "ok"
    /\ Len(ret.val.hits) = 2
    /\ ret.val.hits[1].num < ret.val.hits[2].num

\* C11 (as stated): CastRay reports a hit exactly when some body meets the
\* ray at a fraction in [0,1], the end point included, and the hit it returns
\* has the least fraction of all bodies met.
C11_ClosestHitIffAnyHit ==
    (ret.op = "CastRay" /\ ret.out = "ok") =>
        /\ ret.val.hasHit <=> ret.val.found # {}
        /\ ret.val.hasHit =>
              \A f \in ret.val.found :
                  ret.val.hits[1].num * f.den <= f.num * ret.val.hits[1].den

\* C12 (as stated): CharacterVirtual.SetShape tells the caller whether the
\* shape change was applied or rejected.
C12_SetShapeReportsRejection ==
    (ret.op = "CharSetShape" /\ ret.out = "ok") =>
        ret.val.returned = (IF ret.val.applied THEN "applied" ELSE "rejected")

\* C13: IsSupported() answers true exactly when the character's ground state
\* is OnGround or OnSteepGround.
C13_IsSupportedIffOnGround ==
    (ret.op = "IsSupported" /\ ret.out = "ok") =>
        (ret.val.supported <=>
            cv[ret.val.char].ground \in {JoltGroundStateOnGround, JoltGroundStateOnSteepGround})

\* IsSupported has just answered true for a character on steep ground
C13_Witness ==
    /\ ret.op = "IsSupported"
    /\ ret.val.supported
    /\ cv[ret.val.char].ground = JoltGroundStateOnSteepGround

\* C14: no character is in ground state OnGround with an empty list of
\* active contacts, whatever steps, moves and velocity changes came before.
C14_OnGroundHasContact ==
    \A c \in CharIds :
        (chars[c] # NULL /\ cv[c].ground = JoltGroundStateOnGround) => cv[c].contacts # <<>>

\* a character standing on the ground has just been moved by SetPosition to
\* a place where nothing touches it: state and contacts are those of the
\* last step
C14_Witness ==
    /\ ret.op = "CharSetPosition"
    /\ cv[ret.val].ground = JoltGroundStateOnGround
    /\ cv[ret.val].contacts # <<>>
    /\ ContactsAt(cv[ret.val].pos) = {}

\* C19 (as stated): for every maxContacts >= 0 GetActiveContacts returns,
\* without failing, the first min(maxContacts, number of active contacts)
\* active contacts in order.
C19_ActiveContactsBounded ==
    (ret.op = "GetActiveContacts" /\ ret.val.maxContacts >= 0) =>
        /\ ret.out = "ok"
        /\ Len(ret.val.contacts) = Min(ret.val.maxContacts, Len(ret.val.active))
        /\ \A i \in DOMAIN ret.val.contacts : ret.val.contacts[i].body = ret.val.active[i]

C16_HollowNotHitAtZero ==
    (/\ ret.op = "ShapeCastRay" /\ ret.out = "ok"
     /\ ~ret.val.treatConvexAsSolid
     /\ Abs(ret.val.o) < HalfExtent)
    => ~(ret.val.hasHit /\ ret.val.num = 0)

\* the segment from o to o + d and the shape have a point in common
SegmentIntersects(o, d) == \E k \in 0..Abs(d) : Abs(o + k * Sign(d)) <= HalfExtent
\* distance along the segment to its first point on or in the shape
FirstIntersection(o, d) ==
    CHOOSE k \in 0..Abs(d) :
        /\ Abs(o + k * Sign(d)) <= HalfExtent
        /\ \A j \in 0..(k - 1) : Abs(o + j * Sign(d)) > HalfExtent

\* C17: with default settings Shape.CastRay returns true exactly when the
\* segment intersects the shape, and then Fraction x |direction| is the
\* distance from the origin to the first intersection, 0 for an origin inside.
C17_DefaultRayHitsFirstSurface ==
    (/\ ret.op = "ShapeCastRay" /\ ret.out = "ok"
     /\ ret.val.treatConvexAsSolid
     /\ ret.val.backfaceMode = BackfaceModeIgnore)
    => /\ ret.val.hasHit <=> SegmentIntersects(ret.val.o, ret.val.d)
       /\ ret.val.hasHit =>
             /\ ret.val.den = Abs(ret.val.d)
             /\ ret.val.num = FirstIntersection(ret.val.o, ret.val.d)

C17_Witness ==
    /\ ret.op = "ShapeCastRay" /\ ret.out = "ok"
    /\ ret.val.treatConvexAsSolid
    /\ ret.val.backfaceMode = BackfaceModeIgnore
    /\ ret.val.hasHit
    /\ ret.val.num > 0
    /\ ret.val.num < ret.val.den

\* C18 (as stated): TransformedShape.CastRay of shape S at p gives the hit
\* or miss and the fraction of Shape.CastRay with the origin moved by -p, and
\* PhysicsSystem.CastRay against a world whose only body is S at p gives the
\* same again.
C18_RayPathsAgree ==
    /\ (ret.op = "TransformedShapeCastRay" /\ ret.out = "ok") =>
          LET r == ShapeCastRayResult(ret.val.o - tsPos[ret.val.ts], ret.val.d,
                                      BackfaceModeIgnore, TRUE)
          IN /\ ret.val.hasHit = r.hasHit
             /\ ret.val.hasHit => ret.val.num * r.den = r.num * ret.val.den
    /\ (ret.op = "CastRay" /\ ret.out = "ok") =>
          \A b \in WorldBodies :
              WorldBodies = {b} =>
                  LET r == TransformedRay(bodies[b].pos, ret.val.o, ret.val.d)
                  IN /\ ret.val.hasHit = r.hasHit
                     /\ ret.val.hasHit =>
                           ret.val.hits[1].num * r.den = r.num * ret.val.hits[1].den

\* C20: Update and ExtendedUpdate are blocking: when either has returned, no
\* job it put on the worker pool is waiting or being executed.
C20_NoJobAfterReturn ==
    ret.out # "blocked" => \A j \in JobIds : jobs[j].st \notin {"queued", "running"}

C20_Witness ==
    /\ ret.op = "Update" /\ ret.out = "ok"
    /\ ret.val.moved # {}
    /\ \E j \in JobIds : jobs[j] = [st |-> "done", by |-> "worker"]
    /\ \E j \in JobIds : jobs[j] = [st |-> "done", by |-> "caller"]

\* C29: the object layer pair filter is symmetric, and whenever it accepts
\* (a, b) the broad-phase filter accepts a against the broad-phase layer of b;
\* in particular for the layers of any two bodies of the world.
C29_FiltersSymmetricConsistent ==
    /\ \A a, b \in Layers :
          /\ ObjectLayerPairShouldCollide(a, b) = ObjectLayerPairShouldCollide(b, a)
          /\ ObjectLayerPairShouldCollide(a, b) =>
                ObjectVsBroadPhaseShouldCollide(a, GetBroadPhaseLayer(b))
    /\ \A x, y \in WorldBodies :
          ObjectLayerPairShouldCollide(bodies[x].layer, bodies[y].layer) =>
             /\ ObjectLayerPairShouldCollide(bodies[y].layer, bodies[x].layer)
             /\ FiltersAccept(bodies[x].layer, bodies[y].layer)
             /\ FiltersAccept(bodies[y].layer, bodies[x].layer)

\* a query is made in a world that holds a NON_MOVING and a MOVING body that
\* touch
C29_Witness ==
    /\ \E x, y \in WorldBodies :
          /\ bodies[x].layer = NON_MOVING /\ bodies[y].layer = MOVING
          /\ Touching(bodies[x].pos, bodies[y].pos)
          /\ FiltersAccept(bodies[x].layer, bodies[y].layer)
          /\ FiltersAccept(bodies[y].layer, bodies[x].layer)
    /\ ret.op = "CollideShape"

\* C26: for the same world, shape and position CollideShape returns true
\* exactly when CollideShapeGetHits with maxHits >= 1 returns a non-empty
\* list, and every body of the world, static or not, is a candidate of both.
C26_OverlapQueriesAgree ==
    /\ (ret.op = "CollideShape" /\ ret.out = "ok") =>
          \A reported \in ShapeReports(ret.val.p) : \A m \in 1..MaxHitsArg :
              ret.val.hit = (AllHitsCollected(reported, m) # <<>>)
    /\ (ret.op = "CollideShapeGetHits" /\ ret.out = "ok" /\ ret.val.maxHits >= 1) =>
          \A reported \in ShapeReports(ret.val.p) :
              (ret.val.hits # <<>>) = AnyHitCollected(reported)
    /\ \A b \in WorldBodies : b \in QueryCandidates

\* CollideShapeGetHits has returned a static body it overlaps
C26_Witness ==
    /\ ret.op = "CollideShapeGetHits" /\ ret.out = "ok"
    /\ ret.val.maxHits >= 1
    /\ \E i \in DOMAIN ret.val.hits :
          bodies[ret.val.hits[i].body].motion = JoltMotionTypeStatic

\* C25: when more than maxHits bodies lie along the ray, CastRayGetHits
\* returns maxHits hits and no hit it leaves out has a smaller fraction than
\* one it returns, whatever the order the hits were reported in.
C25_ClosestHitsKept ==
    (/\ ret.op = "CastRayGetHits" /\ ret.out = "ok"
     /\ ret.val.maxHits >= 1
     /\ Cardinality(ret.val.found) > ret.val.maxHits)
    => /\ Len(ret.val.hits) = ret.val.maxHits
       /\ \A f \in ret.val.found :
             (\A i \in DOMAIN ret.val.hits : ret.val.hits[i].body # f.body) =>
                 \A i \in DOMAIN ret.val.hits : ~FractionLess(f, ret.val.hits[i])

\* a hit was left out that lies farther along the ray than the one returned
C25_Witness ==
    /\ ret.op = "CastRayGetHits" /\ ret.out = "ok"
    /\ ret.val.maxHits = 1
    /\ Len(ret.val.hits) = 1
    /\ \E f \in ret.val.found :
          /\ f.body # ret.val.hits[1].body
          /\ FractionLess(ret.val.hits[1], f)

ShapeUsers(s) ==
    Cardinality({b \in WorldBodies : bodies[b].shape = s})
    + Cardinality({t \in TSIds : ts[t] = s})
    + Cardinality({c \in CharIds : chars[c] = s})

\* C24 (as stated): while every Shape handle, from a constructor or from
\* CharacterVirtual.GetShape, has been destroyed at most once, the reference
\* count of a shape is at least the number of bodies, characters and
\* transformed shapes using it, and a shape in use is not freed.
C24_ShapeCountCoversUsers ==
    \A s \in ShapeIds :
        shapes[s].h \in {"live", "destroyed"} =>
            /\ shapes[s].rc >= ShapeUsers(s)
            /\ ShapeUsers(s) > 0 => shapes[s].alive

C23_LayersOutliveSystem ==
    wrapper["system"] = "alive" =>
        /\ wrapper["broad_phase_layer_interface"] = "alive"
        /\ wrapper["object_vs_broadphase_layer_filter"] = "alive"
        /\ wrapper["object_vs_object_layer_filter"] = "alive"

\* C28 (as stated): Update and the character's Update, ExtendedUpdate and
\* SetShape run only while the global temp allocator and the job system are
\* allocated; none of them ever runs with a null global.
C28_StepsOnlyWhileInitialised ==
    ret.op \in {"Update", "CharUpdate", "CharExtendedUpdate", "CharSetShape"}
        => GlobalsAllocated

\* C30 (as stated): a library file is present at its path only if it was
\* downloaded completely; a failed download leaves no file there.
C30_OnlyCompleteFilesPresent ==
    \A lib \in LibNames : Exists(files, lib) => files[lib] = LibSize
====
